---------------------------- MODULE Spec2Model ----------------------------
(***************************************************************************)
(* A model of detector_full_anmol_vishwakarma.py: the PII detector and     *)
(* redactor (process_record, the redact_* transforms, the pattern and      *)
(* category tables) and the row loop of main that feeds it.                *)
(*                                                                         *)
(* Python strings are sequences of one-character strings.  A JSON value is *)
(* a record [t, v]: t is its Python type after json.loads ("str", "num",   *)
(* "bool", "null", "nested") and v is the text str(value) gives.           *)
(***************************************************************************)
EXTENDS Integers, Sequences, FiniteSets, TLC

VARIABLES
    rows,                     \* the rows csv.DictReader yields, in order
    idx,                      \* how many rows the loop has taken so far
    pc,                       \* position in main / process_record
    exc,                      \* the exception in flight, "" when none
    data,                     \* process_record's argument (main's data_dict)
    redacted_data,            \* process_record's local copy
    is_pii,                   \* process_record's flag
    pii_keys_to_redact,       \* process_record's set of marked keys
    found_combinatorial_keys, \* process_record's list of qualifying keys
    out,                      \* the rows written after the header
    skipped,                  \* record ids reported by the decode warning
    REGEX_PATTERNS,           \* module-level tables (mutable Python objects)
    STANDALONE_PII_KEYS,
    COMBINATORIAL_PII_KEYS,
    REDACTION_MAPPING

vars == <<rows, idx, pc, exc, data, redacted_data, is_pii, pii_keys_to_redact,
          found_combinatorial_keys, out, skipped, REGEX_PATTERNS,
          STANDALONE_PII_KEYS, COMBINATORIAL_PII_KEYS, REDACTION_MAPPING>>

locals == <<data, redacted_data, is_pii, pii_keys_to_redact,
            found_combinatorial_keys>>

tables == <<REGEX_PATTERNS, STANDALONE_PII_KEYS, COMBINATORIAL_PII_KEYS,
            REDACTION_MAPPING>>

-----------------------------------------------------------------------------
(* Bounds of the input domain. *)

\* longest run of digits tried in phone, aadhar and passport values
MaxDigits == 12
\* longest string over a field's small alphabet
MaxLen == 4
\* most fields in a record built from the basic values
MaxFields == 3
\* most rows in an input file with several rows
MaxRows == 3

-----------------------------------------------------------------------------
(* Characters and Python string primitives. *)

\* the ASCII digits (the values of the model are ASCII text)
Digits == {"0", "1", "2", "3", "4", "5", "6", "7", "8", "9"}

Upper == {"A", "B", "C", "D", "E", "F", "G", "H", "I", "J", "K", "L", "M",
          "N", "O", "P", "Q", "R", "S", "T", "U", "V", "W", "X", "Y", "Z"}

Lower == {"a", "b", "c", "d", "e", "f", "g", "h", "i", "j", "k", "l", "m",
          "n", "o", "p", "q", "r", "s", "t", "u", "v", "w", "x", "y", "z"}

\* what \w matches
WordChars == Digits \cup Upper \cup Lower \cup {"_"}

\* what \s and str.split() with no argument treat as whitespace
Whitespace == {" ", "\t", "\n", "\r"}

Min(a, b) == IF a < b THEN a ELSE b

Max(a, b) == IF a > b THEN a ELSE b

\* s[i:j] with 0-based, already clamped bounds
Slice(s, i, j) == IF j <= i THEN <<>> ELSE SubSeq(s, i + 1, j)

\* s[:n] for n >= 0
Prefix(s, n) == Slice(s, 0, Min(n, Len(s)))

\* s[-n:] for n > 0
Suffix(s, n) == Slice(s, Max(Len(s) - n, 0), Len(s))

\* c * n; a count below one gives the empty string
Repeat(c, n) == [i \in 1..Max(n, 0) |-> c]

\* c in s
Contains(s, c) == \E i \in 1..Len(s) : s[i] = c

\* s.split(sep) for a one-character sep: always at least one part
RECURSIVE SplitOn(_, _)
SplitOn(s, sep) ==
    IF ~Contains(s, sep) THEN <<s>>
    ELSE LET i == CHOOSE k \in 1..Len(s) :
                      s[k] = sep /\ \A j \in 1..(k - 1) : s[j] # sep
         IN <<SubSeq(s, 1, i - 1)>> \o SplitOn(SubSeq(s, i + 1, Len(s)), sep)

\* s.split(): runs of non-whitespace; no empty tokens
RECURSIVE SplitWs(_)
SplitWs(s) ==
    IF \A i \in 1..Len(s) : s[i] \in Whitespace THEN <<>>
    ELSE LET b == CHOOSE k \in 1..Len(s) :
                      s[k] \notin Whitespace
                      /\ \A j \in 1..(k - 1) : s[j] \in Whitespace
             e == CHOOSE k \in b..Len(s) :
                      (\A j \in b..k : s[j] \notin Whitespace)
                      /\ (k = Len(s) \/ s[k + 1] \in Whitespace)
         IN <<SubSeq(s, b, e)>> \o SplitWs(SubSeq(s, e + 1, Len(s)))

\* sep.join(parts)
RECURSIVE Join(_, _)
Join(parts, sep) ==
    IF parts = <<>> THEN <<>>
    ELSE IF Len(parts) = 1 THEN parts[1]
    ELSE parts[1] \o sep \o Join(Tail(parts), sep)

\* str.upper() on one character
UpperOf(c) ==
    LET lo == <<"a", "b", "c", "d", "e", "f", "g", "h", "i", "j", "k", "l", "m",
                "n", "o", "p", "q", "r", "s", "t", "u", "v", "w", "x", "y", "z">>
        up == <<"A", "B", "C", "D", "E", "F", "G", "H", "I", "J", "K", "L", "M",
                "N", "O", "P", "Q", "R", "S", "T", "U", "V", "W", "X", "Y", "Z">>
    IN IF c \in Lower THEN up[CHOOSE i \in 1..26 : lo[i] = c] ELSE c

\* the characters of a field name
KeyChars(k) ==
    CASE k = "phone"      -> <<"p", "h", "o", "n", "e">>
      [] k = "aadhar"     -> <<"a", "a", "d", "h", "a", "r">>
      [] k = "passport"   -> <<"p", "a", "s", "s", "p", "o", "r", "t">>
      [] k = "upi_id"     -> <<"u", "p", "i", "_", "i", "d">>
      [] k = "name"       -> <<"n", "a", "m", "e">>
      [] k = "email"      -> <<"e", "m", "a", "i", "l">>
      [] k = "address"    -> <<"a", "d", "d", "r", "e", "s", "s">>
      [] k = "ip_address" -> <<"i", "p", "_", "a", "d", "d", "r", "e", "s", "s">>
      [] k = "device_id"  -> <<"d", "e", "v", "i", "c", "e", "_", "i", "d">>
      [] k = "city"       -> <<"c", "i", "t", "y">>

-----------------------------------------------------------------------------
(* Regular expressions.  A pattern is a sequence of elements: a word       *)
(* boundary, a character class with a repeat range, or a group with a      *)
(* repeat range (max = -1: unbounded).                                     *)

ClassSet(cls) ==
    CASE cls = "\\d"             -> Digits
      [] cls = "\\s"             -> Whitespace
      [] cls = "[A-Z]"           -> Upper
      [] cls = "[a-z]"           -> Lower
      [] cls = "[0-9]"           -> Digits
      [] cls = "[a-zA-Z]"        -> Lower \cup Upper
      [] cls = "[a-zA-Z0-9._%+-]" ->
             Lower \cup Upper \cup Digits \cup {".", "_", "%", "+", "-"}
      [] cls = "[a-zA-Z0-9.-]"   -> Lower \cup Upper \cup Digits \cup {".", "-"}
      [] cls = "@"               -> {"@"}
      [] cls = "\\."             -> {"."}

WordBoundary == [kind |-> "b", cls |-> "", min |-> 0, max |-> 0, body |-> <<>>]

Class(cls, lo, hi) ==
    [kind |-> "class", cls |-> cls, min |-> lo, max |-> hi, body |-> <<>>]

Group(body, lo, hi) ==
    [kind |-> "group", cls |-> "", min |-> lo, max |-> hi, body |-> body]

\* \b at position pos (1-based, between s[pos-1] and s[pos])
AtWordBoundary(s, pos) ==
    LET before == pos > 1 /\ s[pos - 1] \in WordChars
        after  == pos <= Len(s) /\ s[pos] \in WordChars
    IN before # after

\* The positions at which a match of pat[i..] that starts at a position of
\* `from` can end.
RECURSIVE MatchEnds(_, _, _, _)
MatchEnds(pat, i, s, from) ==
    IF i > Len(pat) \/ from = {} THEN from
    ELSE LET e == pat[i]
             most(p) == IF e.max = -1 THEN Len(s) + 1 - p
                        ELSE Min(e.max, Len(s) + 1 - p)
             step(P) == MatchEnds(e.body, 1, s, P)
             reps[n \in 0..(Len(s) + 1)] ==
                 IF n = 0 THEN from ELSE step(reps[n - 1])
             next ==
                 CASE e.kind = "b" ->
                        {p \in from : AtWordBoundary(s, p)}
                   [] e.kind = "class" ->
                        {p + n : <<p, n>> \in
                            {<<p, n>> \in from \X (0..Len(s)) :
                                /\ n >= e.min
                                /\ n <= most(p)
                                /\ \A j \in p..(p + n - 1) :
                                       s[j] \in ClassSet(e.cls)}}
                   [] e.kind = "group" ->
                        UNION {reps[n] : n \in
                            {n \in 0..(Len(s) + 1) :
                                n >= e.min /\ (e.max = -1 \/ n <= e.max)}}
         IN MatchEnds(pat, i + 1, s, next)

\* re.search: a match anywhere in s
search(pat, s) == MatchEnds(pat, 1, s, 1..(Len(s) + 1)) # {}

\* fullmatch replaced by search, to show which properties rest on the full match
fullmatch_as_search(pat, s) == search(pat, s)

\* re.fullmatch: the match starts at the first character and ends at the last
fullmatch(pat, s) == (Len(s) + 1) \in MatchEnds(pat, 1, s, {1})


-----------------------------------------------------------------------------
(* The module-level tables, as the module body builds them. *)

RegexPatternsTable ==
    [k \in {"phone", "aadhar", "passport", "upi_id", "email", "ip_address",
            "name"} |->
        CASE k = "phone" ->
               <<WordBoundary, Class("\\d", 10, 10), WordBoundary>>
          [] k = "aadhar" ->
               <<WordBoundary, Class("\\d", 12, 12), WordBoundary>>
          [] k = "passport" ->
               <<WordBoundary, Class("[A-Z]", 1, 1), Class("[0-9]", 7, 7),
                 WordBoundary>>
          [] k = "upi_id" ->
               <<WordBoundary, Class("[a-zA-Z0-9._%+-]", 1, -1),
                 Class("@", 1, 1), Class("[a-zA-Z0-9.-]", 1, -1),
                 WordBoundary>>
          [] k = "email" ->
               <<WordBoundary, Class("[a-zA-Z0-9._%+-]", 1, -1),
                 Class("@", 1, 1), Class("[a-zA-Z0-9.-]", 1, -1),
                 Class("\\.", 1, 1), Class("[a-zA-Z]", 2, -1), WordBoundary>>
          [] k = "ip_address" ->
               <<WordBoundary,
                 Group(<<Class("\\d", 1, 3), Class("\\.", 1, 1)>>, 3, 3),
                 Class("\\d", 1, 3), WordBoundary>>
          [] k = "name" ->
               <<WordBoundary, Class("[A-Z]", 1, 1), Class("[a-z]", 1, -1),
                 Group(<<Class("\\s", 1, 1), Class("[A-Z]", 1, 1),
                         Class("[a-z]", 1, -1)>>, 1, -1),
                 WordBoundary>>]

StandaloneKeysList == <<"phone", "aadhar", "passport", "upi_id">>

CombinatorialKeysList ==
    <<"name", "email", "address", "ip_address", "device_id">>

\* field name -> the name of its transform
RedactionMappingTable ==
    [k \in {"phone", "aadhar", "passport", "email", "name"} |->
        CASE k = "phone"    -> "redact_phone"
          [] k = "aadhar"   -> "redact_aadhar"
          [] k = "passport" -> "redact_passport"
          [] k = "email"    -> "redact_email"
          [] k = "name"     -> "redact_name"]

\* x in lst, for a Python list
InList(x, lst) == \E i \in 1..Len(lst) : lst[i] = x

-----------------------------------------------------------------------------
(* The Redactor.  A transform returns [exc, val]: the exception it raises  *)
(* ("" when it returns) and the string it returns.                         *)

Returned(s) == [exc |-> "", val |-> s]

Raised(e) == [exc |-> e, val |-> <<>>]

redact_phone(phone) ==
    Returned(Prefix(phone, 2) \o <<"X", "X", "X", "X", "X", "X">>
             \o Suffix(phone, 2))

redact_aadhar(aadhar) ==
    Returned(<<"X", "X", "X", "X", "X", "X", "X", "X">> \o Suffix(aadhar, 4))

redact_passport(passport) ==
    IF Len(passport) = 0 THEN Raised("IndexError")
    ELSE Returned(<<passport[1]>> \o <<"X", "X", "X", "X", "X">>
                  \o Suffix(passport, 2))

REDACTED_EMAIL ==
    <<"[", "R", "E", "D", "A", "C", "T", "E", "D", "_", "E", "M", "A", "I",
      "L", "]">>

\* redact_email with one star too many, to show what rests on the star count
redact_email_extra_star(email) ==
    LET parts == SplitOn(email, "@")
    IN IF Len(parts) # 2 THEN Returned(REDACTED_EMAIL)
       ELSE LET user   == parts[1]
                domain == parts[2]
            IN IF Len(user) = 0 THEN Raised("IndexError")
               ELSE Returned(<<user[1]>> \o Repeat("*", Len(user) - 1)
                             \o <<user[Len(user)]>> \o <<"@">> \o domain)

\* the unpacking raises ValueError unless split gives two parts, and the
\* handler catches ValueError only: user[0] on an empty user raises IndexError
redact_email(email) ==
    LET parts == SplitOn(email, "@")
    IN IF Len(parts) # 2 THEN Returned(REDACTED_EMAIL)
       ELSE LET user   == parts[1]
                domain == parts[2]
            IN IF Len(user) = 0 THEN Raised("IndexError")
               ELSE Returned(<<user[1]>> \o Repeat("*", Len(user) - 2)
                             \o <<user[Len(user)]>> \o <<"@">> \o domain)

redact_name(name) ==
    LET parts  == SplitWs(name)
        masked == [i \in 1..Len(parts) |->
                      <<parts[i][1]>> \o Repeat("*", Len(parts[i]) - 1)]
    IN Returned(Join(masked, <<" ">>))

redact_generic(key_name) ==
    LET k == KeyChars(key_name)
    IN Returned(<<"[", "R", "E", "D", "A", "C", "T", "E", "D", "_">>
                \o [i \in 1..Len(k) |-> UpperOf(k[i])] \o <<"]">>)

\* redaction_func(value_to_redact), or redact_generic(key) without one
ApplyRedaction(mapping, key, value_to_redact) ==
    IF key \in DOMAIN mapping
    THEN CASE mapping[key] = "redact_phone"    -> redact_phone(value_to_redact)
           [] mapping[key] = "redact_aadhar"   -> redact_aadhar(value_to_redact)
           [] mapping[key] = "redact_passport" -> redact_passport(value_to_redact)
           [] mapping[key] = "redact_email"    -> redact_email(value_to_redact)
           [] mapping[key] = "redact_name"     -> redact_name(value_to_redact)
    ELSE redact_generic(key)

-----------------------------------------------------------------------------
(* JSON values and payloads. *)

Str(s) == [t |-> "str", v |-> s]

Num(s) == [t |-> "num", v |-> s]

Bool(s) == [t |-> "bool", v |-> s]

Null == [t |-> "null", v |-> <<"N", "o", "n", "e">>]

Nested(s) == [t |-> "nested", v |-> s]

\* isinstance(value, str)
IsStr(value) == value.t = "str"

\* the empty dict
EmptyDict == [k \in {} |-> Null]

\* what json.loads returns: a dict, a list, or a scalar
Object(fields) == [kind |-> "object", fields |-> fields]

Array == [kind |-> "array", fields |-> EmptyDict]

Scalar == [kind |-> "scalar", fields |-> EmptyDict]

\* The data_json cell of a row: JSON text of a document, text that is not
\* JSON, None (a row shorter than the header), or no such column at all.
Text(doc) == [form |-> "json", doc |-> doc]

Garbage == [form |-> "garbage", doc |-> Scalar]

NoneCell == [form |-> "none", doc |-> Scalar]

NoColumn == [form |-> "nocolumn", doc |-> Scalar]

\* json.loads(row.get('data_json', '{}')): [exc, doc]
json_loads(cell) ==
    CASE cell.form = "json"     -> [exc |-> "", doc |-> cell.doc]
      [] cell.form = "nocolumn" -> [exc |-> "", doc |-> Object(EmptyDict)]
      [] cell.form = "garbage"  -> [exc |-> "JSONDecodeError", doc |-> Scalar]
      [] cell.form = "none"     -> [exc |-> "TypeError", doc |-> Scalar]


-----------------------------------------------------------------------------
(* The input domain: the files the model runs main on. *)

\* every string over alphabet of length at most n
Strings(alphabet, n) == UNION {[1..m -> alphabet] : m \in 0..n}

DigitCycle == <<"9", "8", "7", "6", "5", "4", "3", "2", "1", "0">>

\* a run of n digits
DigitRun(n) == [i \in 1..n |-> DigitCycle[((i - 1) % 10) + 1]]

\* what may surround a run of digits
Affixes == {<<>>, <<" ">>, <<"\n">>, <<"x">>, <<"1">>, <<"-">>}

DigitStrings(len) ==
    {DigitRun(n) : n \in 0..MaxDigits}
        \cup {pre \o DigitRun(len) \o suf : pre \in Affixes, suf \in Affixes}

NonStrings ==
    {Num(<<"7">>), Num(DigitRun(10)), Bool(<<"T", "r", "u", "e">>), Null,
     Nested(<<"[", "'", "@", "'", "]">>)}

Keys == {"phone", "aadhar", "passport", "upi_id", "name", "email", "address",
         "ip_address", "device_id", "city"}

\* the order in which a decoded object lists its fields
KeyOrder == <<"phone", "aadhar", "passport", "upi_id", "name", "email",
              "address", "ip_address", "device_id", "city">>

Ip == Str(<<"1", ".", "2", ".", "3", ".", "4">>)

\* the values tried exhaustively for one field
RichValues(k) ==
    NonStrings \cup
    CASE k = "phone"    -> {Str(s) : s \in DigitStrings(10)}
      [] k = "aadhar"   -> {Str(s) : s \in DigitStrings(12)}
      [] k = "passport" ->
             {Str(s) : s \in {<<>>} \cup
                 {<<c>> \o DigitRun(n) : c \in {"A", "a", "7"},
                                         n \in 0..MaxDigits}
                 \cup {pre \o <<"A">> \o DigitRun(7) \o suf :
                          pre \in Affixes, suf \in Affixes}}
      [] k = "upi_id"   -> {Str(s) : s \in Strings({"a", "@", ".", "_"}, MaxLen)}
      [] k = "name"     -> {Str(s) : s \in Strings({"A", "b", " ", "\t"}, MaxLen)}
      [] k = "email"    -> {Str(s) : s \in Strings({"a", "b", "@"}, MaxLen + 1)}
      [] k = "address"  -> {Str(s) : s \in Strings({"a", " ", "\n"}, MaxLen + 1)}
      [] k = "ip_address" -> {Ip, Str(<<>>)}
      [] k = "device_id"  -> {Str(<<"d", "1">>), Str(<<>>)}
      [] k = "city"       -> {Str(<<"x">>), Str(DigitRun(10)), Str(<<"a", "@", "b">>)}

\* the other fields a richly valued field is tried with
Contexts ==
    {EmptyDict,
     [k \in {"ip_address"} |-> Ip],
     [k \in {"phone", "device_id", "city"} |->
         CASE k = "phone"     -> Str(DigitRun(10))
           [] k = "device_id" -> Num(<<"7">>)
           [] k = "city"      -> Str(<<"x">>)]}

RichRecords ==
    {[x \in DOMAIN ctx \cup {k} |-> IF x = k THEN v ELSE ctx[x]] :
        <<k, v, ctx>> \in
            UNION {{k} \X RichValues(k) \X Contexts : k \in Keys}}

\* two values for each field, combined freely
BasicValues(k) ==
    CASE k = "phone"      -> <<Str(DigitRun(10)), Num(DigitRun(10))>>
      [] k = "aadhar"     -> <<Str(DigitRun(12)), Str(DigitRun(11))>>
      [] k = "passport"   -> <<Str(<<"A">> \o DigitRun(7)), Null>>
      [] k = "upi_id"     -> <<Str(<<"a", "@", "b">>), Str(<<"a", "@">>)>>
      [] k = "name"       -> <<Str(<<"A", "b", " ", "C", "d">>), Str(<<"A", "b">>)>>
      [] k = "email"      -> <<Str(<<"a", "b", "c", "@", "d">>), Num(<<"7">>)>>
      [] k = "address"    -> <<Str(<<"a", " ", "b", " ", "c">>), Str(<<"a", " ", "b">>)>>
      [] k = "ip_address" -> <<Ip, Null>>
      [] k = "device_id"  -> <<Str(<<"d", "1">>), Bool(<<"T", "r", "u", "e">>)>>
      [] k = "city"       -> <<Str(<<"x", " ", "y">>), Str(DigitRun(10))>>

BasicRecords ==
    UNION {{[k \in K |-> BasicValues(k)[c[k]]] : c \in [K -> 1..2]} :
              K \in {K \in SUBSET Keys : Cardinality(K) <= MaxFields}}

Records == RichRecords \cup BasicRecords

Cells ==
    {Garbage, NoneCell, NoColumn, Text(Array), Text(Scalar)}
        \cup {Text(Object(r)) : r \in Records}

\* the cells of the files with several rows
MainCells ==
    {Garbage, NoneCell, Text(Scalar),
     Text(Object([k \in {"phone"} |-> Str(DigitRun(10))])),
     Text(Object([k \in {"name"} |-> Str(<<"A", "b">>)])),
     Text(Object([k \in {"email", "ip_address"} |->
                     IF k = "email" THEN Str(<<"a", "@", "b">>) ELSE Ip])),
     Text(Object([k \in {"email", "ip_address"} |->
                     IF k = "email" THEN Str(<<"@", "b">>) ELSE Ip]))}

Row(i, cell) == [record_id |-> i, data_json |-> cell]

InputFiles ==
    {<<Row(1, c)>> : c \in Cells}
        \cup UNION {{[i \in 1..n |-> Row(i, f[i])] : f \in [1..n -> MainCells]} :
                       n \in 0..MaxRows}

-----------------------------------------------------------------------------
(* The program. *)

Init ==
    /\ rows \in InputFiles
    /\ idx = 0
    /\ pc = "loop"
    /\ exc = ""
    /\ data = Object(EmptyDict)
    /\ redacted_data = EmptyDict
    /\ is_pii = FALSE
    /\ pii_keys_to_redact = {}
    /\ found_combinatorial_keys = <<>>
    /\ out = <<>>
    /\ skipped = <<>>
    /\ REGEX_PATTERNS = RegexPatternsTable
    /\ STANDALONE_PII_KEYS = StandaloneKeysList
    /\ COMBINATORIAL_PII_KEYS = CombinatorialKeysList
    /\ REDACTION_MAPPING = RedactionMappingTable

\* an exception leaves for main's handler
Raise(e) ==
    /\ exc' = e
    /\ pc' = "except"

\* for row in reader: record_id and data_json_str are read from the next row
Fetch ==
    /\ pc = "loop"
    /\ idx < Len(rows)
    /\ idx' = idx + 1
    /\ pc' = "decode"
    /\ UNCHANGED <<rows, exc, locals, out, skipped, tables>>

\* the reader is exhausted: "Processing complete"
LoopEnd ==
    /\ pc = "loop"
    /\ idx = Len(rows)
    /\ pc' = "done"
    /\ UNCHANGED <<rows, idx, exc, locals, out, skipped, tables>>

DecodeOk ==
    /\ pc = "decode"
    /\ json_loads(rows[idx].data_json).exc = ""
    /\ data' = json_loads(rows[idx].data_json).doc
    /\ pc' = "call"
    /\ UNCHANGED <<rows, idx, exc, redacted_data, is_pii, pii_keys_to_redact,
                   found_combinatorial_keys, out, skipped, tables>>

\* except json.JSONDecodeError: warn and continue
DecodeSkip ==
    /\ pc = "decode"
    /\ json_loads(rows[idx].data_json).exc = "JSONDecodeError"
    /\ skipped' = Append(skipped, rows[idx].record_id)
    /\ pc' = "loop"
    /\ UNCHANGED <<rows, idx, exc, locals, out, tables>>

\* any other exception of json.loads is not caught in the loop
DecodeRaise ==
    /\ pc = "decode"
    /\ json_loads(rows[idx].data_json).exc \notin {"", "JSONDecodeError"}
    /\ Raise(json_loads(rows[idx].data_json).exc)
    /\ UNCHANGED <<rows, idx, locals, out, skipped, tables>>

\* Enter with the flag and the marked keys kept from the previous call, to
\* show what rests on their being reset
EnterKeepingFlags ==
    /\ pc = "call"
    /\ data.kind # "scalar"
    /\ redacted_data' = data.fields
    /\ found_combinatorial_keys' = <<>>
    /\ pc' = "standalone"
    /\ UNCHANGED <<rows, idx, exc, data, is_pii, pii_keys_to_redact, out,
                   skipped, tables>>

\* process_record(data_dict): a new frame, is_pii = False,
\* redacted_data = data.copy(), pii_keys_to_redact = set()
Enter ==
    /\ pc = "call"
    /\ data.kind # "scalar"
    /\ is_pii' = FALSE
    /\ redacted_data' = data.fields
    /\ pii_keys_to_redact' = {}
    /\ found_combinatorial_keys' = <<>>
    /\ pc' = "standalone"
    /\ UNCHANGED <<rows, idx, exc, data, out, skipped, tables>>

\* a str, number, bool or None has no copy()
EnterRaise ==
    /\ pc = "call"
    /\ data.kind = "scalar"
    /\ Raise("AttributeError")
    /\ UNCHANGED <<rows, idx, locals, out, skipped, tables>>

\* the standalone loop without its isinstance test, to show what rests on it
StandaloneMatchesAnyType ==
    {key \in DOMAIN data.fields :
        /\ InList(key, STANDALONE_PII_KEYS)
        /\ key \in DOMAIN REGEX_PATTERNS
        /\ fullmatch(REGEX_PATTERNS[key], data.fields[key].v)}

\* the keys the standalone loop marks
StandaloneMatches ==
    {key \in DOMAIN data.fields :
        /\ InList(key, STANDALONE_PII_KEYS)
        /\ IsStr(data.fields[key])
        /\ key \in DOMAIN REGEX_PATTERNS
        /\ fullmatch(REGEX_PATTERNS[key], data.fields[key].v)}

StandalonePass ==
    /\ pc = "standalone"
    /\ data.kind = "object"
    /\ is_pii' = (is_pii \/ StandaloneMatches # {})
    /\ pii_keys_to_redact' = pii_keys_to_redact \cup StandaloneMatches
    /\ pc' = "combinatorial"
    /\ UNCHANGED <<rows, idx, exc, data, redacted_data,
                   found_combinatorial_keys, out, skipped, tables>>

\* a list has no items()
StandaloneRaise ==
    /\ pc = "standalone"
    /\ data.kind # "object"
    /\ Raise("AttributeError")
    /\ UNCHANGED <<rows, idx, locals, out, skipped, tables>>

\* the two `continue` filters of the combinatorial loop
SkipsField(key, value) ==
    \/ key = "name" /\ IsStr(value) /\ ~Contains(value.v, " ")
    \/ key = "address" /\ IsStr(value) /\ Len(SplitWs(value.v)) < 3

CombinatorialPass ==
    /\ pc = "combinatorial"
    /\ found_combinatorial_keys' =
           SelectSeq(KeyOrder,
                     LAMBDA key :
                         /\ key \in DOMAIN data.fields
                         /\ InList(key, COMBINATORIAL_PII_KEYS)
                         /\ ~SkipsField(key, data.fields[key]))
    /\ pc' = "threshold"
    /\ UNCHANGED <<rows, idx, exc, data, redacted_data, is_pii,
                   pii_keys_to_redact, out, skipped, tables>>

\* Threshold flagging from one qualifying field on while marking from two on,
\* to show what rests on the two happening together
ThresholdFlaggingOne ==
    /\ pc = "threshold"
    /\ is_pii' = (is_pii \/ Len(found_combinatorial_keys) >= 1)
    /\ pii_keys_to_redact' =
           IF Len(found_combinatorial_keys) >= 2
           THEN pii_keys_to_redact
                    \cup {found_combinatorial_keys[i] :
                             i \in 1..Len(found_combinatorial_keys)}
           ELSE pii_keys_to_redact
    /\ pc' = "redact"
    /\ UNCHANGED <<rows, idx, exc, data, redacted_data,
                   found_combinatorial_keys, out, skipped, tables>>

\* if len(found_combinatorial_keys) >= 2: flag and mark them all
Threshold ==
    /\ pc = "threshold"
    /\ IF Len(found_combinatorial_keys) >= 2
       THEN /\ is_pii' = TRUE
            /\ pii_keys_to_redact' =
                   pii_keys_to_redact
                       \cup {found_combinatorial_keys[i] :
                                i \in 1..Len(found_combinatorial_keys)}
       ELSE UNCHANGED <<is_pii, pii_keys_to_redact>>
    /\ pc' = "redact"
    /\ UNCHANGED <<rows, idx, exc, data, redacted_data,
                   found_combinatorial_keys, out, skipped, tables>>

\* the keys the redaction loop rewrites
RedactedKeys ==
    IF is_pii
    THEN {key \in pii_keys_to_redact :
             key \in DOMAIN redacted_data /\ redacted_data[key].t # "null"}
    ELSE {}

\* each rewritten key's transform applied to str(redacted_data[key])
Redactions ==
    [key \in RedactedKeys |->
        ApplyRedaction(REDACTION_MAPPING, key, redacted_data[key].v)]

\* Redact with redacted_data bound to data itself instead of a copy, to show
\* what rests on the copy
RedactWithoutCopy ==
    /\ pc = "redact"
    /\ \A key \in RedactedKeys : Redactions[key].exc = ""
    /\ redacted_data' =
           [key \in DOMAIN redacted_data |->
               IF key \in RedactedKeys THEN Str(Redactions[key].val)
               ELSE redacted_data[key]]
    /\ data' = [data EXCEPT !.fields = redacted_data']
    /\ pc' = "return"
    /\ UNCHANGED <<rows, idx, exc, is_pii, pii_keys_to_redact,
                   found_combinatorial_keys, out, skipped, tables>>

Redact ==
    /\ pc = "redact"
    /\ \A key \in RedactedKeys : Redactions[key].exc = ""
    /\ redacted_data' =
           [key \in DOMAIN redacted_data |->
               IF key \in RedactedKeys THEN Str(Redactions[key].val)
               ELSE redacted_data[key]]
    /\ pc' = "return"
    /\ UNCHANGED <<rows, idx, exc, data, is_pii, pii_keys_to_redact,
                   found_combinatorial_keys, out, skipped, tables>>

\* a transform raises: process_record does not return
RedactRaise ==
    /\ pc = "redact"
    /\ \E key \in RedactedKeys :
           /\ Redactions[key].exc # ""
           /\ Raise(Redactions[key].exc)
    /\ UNCHANGED <<rows, idx, locals, out, skipped, tables>>

\* return redacted_data, is_pii
Return ==
    /\ pc = "return"
    /\ pc' = "write"
    /\ UNCHANGED <<rows, idx, exc, locals, out, skipped, tables>>

\* json.dumps(redacted_data) and writer.writerow
Write ==
    /\ pc = "write"
    /\ out' = Append(out, [record_id |-> rows[idx].record_id,
                           redacted_data |-> redacted_data,
                           is_pii |-> is_pii])
    /\ pc' = "loop"
    /\ UNCHANGED <<rows, idx, exc, locals, skipped, tables>>

\* except Exception: print and sys.exit(1)
Handler ==
    /\ pc = "except"
    /\ pc' = "exited"
    /\ UNCHANGED <<rows, idx, exc, locals, out, skipped, tables>>

Next ==
    \/ Fetch
    \/ LoopEnd
    \/ DecodeOk
    \/ DecodeSkip
    \/ DecodeRaise
    \/ Enter
    \/ EnterRaise
    \/ StandalonePass
    \/ StandaloneRaise
    \/ CombinatorialPass
    \/ Threshold
    \/ Redact
    \/ RedactRaise
    \/ Return
    \/ Write
    \/ Handler

Spec == Init /\ [][Next]_vars


-----------------------------------------------------------------------------
(* Vocabulary of the properties. *)

StandaloneSet == {"phone", "aadhar", "passport", "upi_id"}

CombinatorialSet == {"name", "email", "address", "ip_address", "device_id"}

\* process_record has returned to main: its result is (redacted_data, is_pii)
HasReturned == pc = "write"

\* the record main decoded from the current row
InputRecord == rows[idx].data_json.doc.fields

\* the current row's cell decodes
Decodes(cell) == cell.form \in {"json", "nocolumn"}

\* an exception raised inside process_record is in flight
RaisedInProcessRecord ==
    pc = "except" /\ idx > 0 /\ Decodes(rows[idx].data_json)

HasWhitespace(s) == \E i \in 1..Len(s) : s[i] \in Whitespace

\* the number of whitespace-separated tokens of s
TokenCount(s) ==
    Cardinality({i \in 1..Len(s) :
                    s[i] \notin Whitespace
                    /\ (i = 1 \/ s[i - 1] \in Whitespace)})

\* a qualifying field as sections 4.1 and the glossary define it
Qualifying(key, value) ==
    /\ key \in CombinatorialSet
    /\ ~(key = "name" /\ IsStr(value) /\ ~HasWhitespace(value.v))
    /\ ~(key = "address" /\ IsStr(value) /\ TokenCount(value.v) < 3)

-----------------------------------------------------------------------------
(* C1 *)

\* C1: process_record is total: on a record whose values are strings,
\* numbers, booleans or null it returns and never raises.
C1_ProcessRecordTotal ==
    ~(/\ RaisedInProcessRecord
      /\ data.kind = "object"
      /\ \A k \in DOMAIN data.fields : data.fields[k].t # "nested")

-----------------------------------------------------------------------------
(* C2 *)

-----------------------------------------------------------------------------
(* C3 *)

\* C3: the returned record has the input's field names, every unmarked field
\* keeps its value, an unflagged record is returned unchanged, and the input
\* mapping is the decoded record throughout the call.
C3_Frame ==
    /\ pc \in {"call", "standalone", "combinatorial", "threshold", "redact",
               "return", "write"} => data = json_loads(rows[idx].data_json).doc
    /\ HasReturned =>
           /\ data.fields = InputRecord
           /\ DOMAIN redacted_data = DOMAIN InputRecord
           /\ \A k \in DOMAIN InputRecord :
                  k \notin pii_keys_to_redact =>
                      redacted_data[k] = InputRecord[k]
           /\ ~is_pii => redacted_data = InputRecord

\* a flagged record with a rewritten field beside an untouched one
C3_Witness ==
    /\ HasReturned
    /\ is_pii
    /\ \E k \in DOMAIN InputRecord : redacted_data[k] # InputRecord[k]
    /\ \E k \in DOMAIN InputRecord : k \notin pii_keys_to_redact

-----------------------------------------------------------------------------
(* C4 *)

\* C4: once the standalone pass has run on a record whose phone is a string,
\* phone is marked (and the record flagged) exactly when the string is ten
\* digits and nothing else, whatever the other fields.
C4_PhoneStandalone ==
    (/\ pc \in {"combinatorial", "threshold", "redact", "return", "write"}
     /\ "phone" \in DOMAIN data.fields
     /\ IsStr(data.fields["phone"])) =>
        LET s   == data.fields["phone"].v
            ten == Len(s) = 10 /\ \A i \in 1..Len(s) : s[i] \in Digits
        IN /\ ("phone" \in pii_keys_to_redact) <=> ten
           /\ ten => is_pii

\* a ten-digit phone marked beside other fields
C4_Witness ==
    /\ pc = "combinatorial"
    /\ "phone" \in pii_keys_to_redact
    /\ is_pii
    /\ Len(data.fields["phone"].v) = 10
    /\ Cardinality(DOMAIN data.fields) >= 2

-----------------------------------------------------------------------------
(* C5 *)

\* C5: a combinatorial field is marked exactly when it is qualifying and the
\* record has at least two qualifying fields, which also flags the record; one
\* qualifying field and no standalone match leaves the record unflagged.
C5_Threshold ==
    HasReturned =>
        LET Q == {k \in DOMAIN data.fields : Qualifying(k, data.fields[k])}
        IN /\ \A k \in DOMAIN data.fields \cap CombinatorialSet :
                  (k \in pii_keys_to_redact) <=> (k \in Q /\ Cardinality(Q) >= 2)
           /\ Cardinality(Q) >= 2 => is_pii
           /\ (Cardinality(Q) = 1 /\ pii_keys_to_redact \cap StandaloneSet = {})
                  => ~is_pii

-----------------------------------------------------------------------------
(* C6 *)

\* C6: a string name is left out of the qualifying fields exactly when it
\* holds no whitespace character (space, tab, newline).
C6_NameQualification ==
    (/\ pc \in {"threshold", "redact", "return", "write"}
     /\ "name" \in DOMAIN data.fields
     /\ IsStr(data.fields["name"])) =>
        (InList("name", found_combinatorial_keys)
            <=> HasWhitespace(data.fields["name"].v))

-----------------------------------------------------------------------------
(* C7 *)

\* C7: a redacted string email with one '@' and a local part of n >= 1
\* characters is the local part's first character, max(0, n - 2) stars, its
\* last character, '@' and the domain; with no '@' it is "[REDACTED_EMAIL]".
C7_EmailMask ==
    (/\ HasReturned
     /\ "email" \in pii_keys_to_redact
     /\ "email" \in DOMAIN data.fields
     /\ IsStr(data.fields["email"])) =>
        LET s   == data.fields["email"].v
            ats == {i \in 1..Len(s) : s[i] = "@"}
            n   == (CHOOSE i \in ats : TRUE) - 1
            w   == IF n > 2 THEN n ELSE 2
            r   == redacted_data["email"]
        IN /\ (Cardinality(ats) = 1 /\ s[1] # "@") =>
                  /\ r.t = "str"
                  /\ Len(r.v) = w + Len(s) - n
                  /\ \A i \in 1..Len(r.v) :
                         r.v[i] = IF i = 1 THEN s[1]
                                  ELSE IF i < w THEN "*"
                                  ELSE IF i = w THEN s[n]
                                  ELSE s[i - w + n]
           /\ ats = {} =>
                  r = Str(<<"[", "R", "E", "D", "A", "C", "T", "E", "D", "_",
                            "E", "M", "A", "I", "L", "]">>)

\* an email with a three-character local part, masked with one star
C7_Witness ==
    /\ HasReturned
    /\ "email" \in pii_keys_to_redact
    /\ "email" \in DOMAIN data.fields
    /\ data.fields["email"] = Str(<<"a", "b", "a", "@", "b">>)
    /\ redacted_data["email"] = Str(<<"a", "*", "a", "@", "b">>)

-----------------------------------------------------------------------------
(* C8 *)

\* C8: the row loop never aborts; between rows, the rows written are the rows
\* taken so far whose payload decodes, one each and in input order, and the
\* rows reported are the others.
C8_RowLoop ==
    /\ pc \notin {"except", "exited"}
    /\ pc \in {"loop", "done"} =>
           LET taken == SubSeq(rows, 1, idx)
           IN /\ [i \in 1..Len(out) |-> out[i].record_id] =
                     [i \in 1..Len(SelectSeq(taken,
                                     LAMBDA r : Decodes(r.data_json))) |->
                         SelectSeq(taken,
                             LAMBDA r : Decodes(r.data_json))[i].record_id]
              /\ skipped =
                     [i \in 1..Len(SelectSeq(taken,
                                     LAMBDA r : ~Decodes(r.data_json))) |->
                         SelectSeq(taken,
                             LAMBDA r : ~Decodes(r.data_json))[i].record_id]

-----------------------------------------------------------------------------
(* C9 *)

\* C9: two rows of a run with the same content get the same redacted record
\* and flag, wherever they stand and whatever rows came before them, and the
\* pattern, category and transform tables stay as built.
C9_Independence ==
    /\ REGEX_PATTERNS = RegexPatternsTable
    /\ STANDALONE_PII_KEYS = StandaloneKeysList
    /\ COMBINATORIAL_PII_KEYS = CombinatorialKeysList
    /\ REDACTION_MAPPING = RedactionMappingTable
    /\ \A i, j \in 1..Len(out) :
           rows[out[i].record_id].data_json = rows[out[j].record_id].data_json
               => /\ out[i].redacted_data = out[j].redacted_data
                  /\ out[i].is_pii = out[j].is_pii

\* the same unflagged record written first and third, a flagged one between
C9_Witness ==
    /\ Len(out) = 3
    /\ rows[out[1].record_id].data_json = rows[out[3].record_id].data_json
    /\ rows[out[1].record_id].data_json # rows[out[2].record_id].data_json
    /\ ~out[1].is_pii
    /\ out[2].is_pii
    /\ out[2].redacted_data # rows[out[2].record_id].data_json.doc.fields

-----------------------------------------------------------------------------
(* C10 *)

\* C10: on return the flag is set exactly when some key is marked; every
\* marked key is a field of the input in the standalone or the combinatorial
\* set, and no other field is rewritten.
C10_FlagAndMarks ==
    HasReturned =>
        /\ is_pii <=> pii_keys_to_redact # {}
        /\ pii_keys_to_redact \subseteq DOMAIN InputRecord
        /\ pii_keys_to_redact \subseteq
               {"phone", "aadhar", "passport", "upi_id", "name", "email",
                "address", "ip_address", "device_id"}
        /\ \A k \in DOMAIN InputRecord :
               redacted_data[k] # InputRecord[k] =>
                   /\ k \in pii_keys_to_redact
                   /\ k \in {"phone", "aadhar", "passport", "upi_id", "name",
                             "email", "address", "ip_address", "device_id"}

\* a record marked by both passes, with a field of another name left alone
C10_Witness ==
    /\ HasReturned
    /\ is_pii
    /\ pii_keys_to_redact \cap StandaloneSet # {}
    /\ pii_keys_to_redact \cap CombinatorialSet # {}
    /\ "city" \in DOMAIN InputRecord
    /\ redacted_data["city"] = InputRecord["city"]

=============================================================================
